---- MODULE Spec2Model ----
(***************************************************************************)
(* Contact-form Lambda handler of src/index.js.  The file holds two        *)
(* handlers: the validating one (lines 64-171, variant 1) and the earlier  *)
(* one without validation (lines 193-260, variant 2).  One behaviour of    *)
(* the model is one invocation of one of them.                             *)
(*                                                                         *)
(* JavaScript values are records tagged by the field t:                    *)
(*   undefined, null, num, str (len = number of UTF-16 units, at = the     *)
(*   string contains '@', text = the literal, or "input" for request       *)
(*   data), obj (keys = own keys in insertion order, val = their values),  *)
(*   error (a thrown Error object).                                        *)
(* Strings that hold JSON text are records too: objlit, strlit, numlit,    *)
(* nulllit, plus malformed (not JSON) and empty (the empty string).        *)
(***************************************************************************)
EXTENDS Integers, Sequences, FiniteSets, TLC

\* Lengths of request strings are drawn within Slack of each limit.
Slack == 1

\* Limits of the validation rules.
NameMin == 2
NameMax == 50
EmailMin == 3
EmailMax == 254
SubjectMin == 2
SubjectMax == 255
MessageMin == 10
MessageMax == 2000

-----------------------------------------------------------------------------
(* JavaScript values *)

Undefined == [t |-> "undefined"]
Null == [t |-> "null"]
Num == [t |-> "num"]
Str(n, a, s) == [t |-> "str", len |-> n, at |-> a, text |-> s]
Lit(s) == Str(Len(s), FALSE, s)
Obj(ks, v) == [t |-> "obj", keys |-> ks, val |-> v]
Error(n, m) == [t |-> "error", name |-> n, message |-> m]

\* The set of elements of a sequence.
Range(s) == {s[i] : i \in DOMAIN s}

\* Property read v.k of a value that is neither null nor undefined.
Get(v, k) == IF v.t = "obj" /\ k \in Range(v.keys) THEN v.val[k] ELSE Undefined

\* Reading a property of null or undefined throws a TypeError.
ReadThrows(v) == v.t \in {"null", "undefined"}

\* v.length < n and v.length > n: a comparison with undefined is false.
LengthLt(v, n) == v.t = "str" /\ v.len < n
LengthGt(v, n) == v.t = "str" /\ v.len > n

\* v.indexOf('@') === -1
IndexOfAtIsMinus1(v) == v.t = "str" /\ ~v.at

\* v.indexOf is not a function
IndexOfThrows(v) == v.t # "str"

-----------------------------------------------------------------------------
(* JSON.stringify and JSON.parse *)

\* A string value becomes a literal two characters longer (its quotes); the
\* model's strings hold no character that needs an escape.
TokenOf(v) ==
    CASE v.t = "str" -> [t |-> "strlit", len |-> v.len + 2, at |-> v.at, text |-> v.text]
      [] v.t = "num" -> [t |-> "numlit"]
      [] OTHER -> [t |-> "nulllit"]

ValueOf(tok) ==
    CASE tok.t = "strlit" -> Str(tok.len - 2, tok.at, tok.text)
      [] tok.t = "numlit" -> Num
      [] OTHER -> Null

\* JSON.stringify(v): the members of an object in insertion order, no
\* whitespace.
JSONstringify(v) ==
    IF v.t = "obj"
    THEN [t |-> "objlit",
          members |-> [i \in 1..Len(v.keys) |-> <<v.keys[i], TokenOf(v.val[v.keys[i]])>>],
          ws |-> FALSE]
    ELSE TokenOf(v)

ParseThrows(text) == text.t \in {"malformed", "empty"}

\* JSON.parse(text) of well-formed text: whitespace is dropped.
JSONparse(text) ==
    IF text.t = "objlit"
    THEN Obj([i \in 1..Len(text.members) |-> text.members[i][1]],
             [k \in {text.members[i][1] : i \in 1..Len(text.members)} |->
                 ValueOf((CHOOSE m \in Range(text.members) : m[1] = k)[2])])
    ELSE ValueOf(text)

-----------------------------------------------------------------------------
(* process.env *)

PERSONAL_EMAIL == [Lit("owner@example.com") EXCEPT !.at = TRUE]
PORTFOLIO_EMAIL == [Lit("portfolio@example.com") EXCEPT !.at = TRUE]
THANK_YOU_TEMPLATE == Lit("THANK_YOU_TEMPLATE")
NOTIFICATION_TEMPLATE == Lit("NOTIFICATION_TEMPLATE")

-----------------------------------------------------------------------------
(* Requests *)

Fields == <<"recaptcha", "name", "email", "subject", "message">>
Validated == <<"name", "email", "subject", "message">>
Emails == {"thankYou", "notification"}

\* Lengths on both sides of the two limits of a rule.
Around(lo, hi) == {n \in ((lo - Slack)..lo) \cup (hi..(hi + Slack)) : n >= 0}

StrIn(n, a) == Str(n, a, "input")

\* The strings a client may put in each field.
FieldStrings(k) ==
    CASE k = "name" -> {StrIn(n, FALSE) : n \in Around(NameMin, NameMax)}
      [] k = "email" -> {StrIn(n, a) : n \in Around(EmailMin, EmailMax), a \in BOOLEAN}
      [] k = "subject" -> {StrIn(n, FALSE) : n \in Around(SubjectMin, SubjectMax)}
      [] k = "message" -> {StrIn(n, FALSE) : n \in Around(MessageMin, MessageMax)}
      [] OTHER -> {StrIn(NameMax, FALSE)}

\* One string per field that passes every rule.
GoodString(k) ==
    CASE k = "name" -> StrIn(NameMin, FALSE)
      [] k = "email" -> StrIn(EmailMin, TRUE)
      [] k = "subject" -> StrIn(SubjectMax, FALSE)
      [] k = "message" -> StrIn(MessageMax, FALSE)
      [] OTHER -> StrIn(NameMax, FALSE)

\* The JSON text of an object with the keys ks (in this order) and values val.
ObjText(ks, val, w) ==
    [t |-> "objlit", members |-> [i \in 1..Len(ks) |-> <<ks[i], TokenOf(val[ks[i]])>>], ws |-> w]

Without(k) == SelectSeq(Fields, LAMBDA f : f # k)

\* All five fields, each a string.
FullBodies ==
    {ObjText(Fields,
             [f \in Range(Fields) |->
                 CASE f = "name" -> n [] f = "email" -> e [] f = "subject" -> s
                   [] f = "message" -> m [] OTHER -> GoodString(f)],
             w) :
        n \in FieldStrings("name"), e \in FieldStrings("email"),
        s \in FieldStrings("subject"), m \in FieldStrings("message"), w \in BOOLEAN}

\* One field missing, or none present.
MissingBodies ==
    {ObjText(Without(k), [f \in Range(Fields) |-> GoodString(f)], FALSE) : k \in Range(Fields)}
        \cup {ObjText(<<>>, <<>>, FALSE)}

\* All five fields, one of them a number or null.
NonStringBodies ==
    {ObjText(Fields, [f \in Range(Fields) |-> IF f = k THEN x ELSE GoodString(f)], FALSE) :
        k \in Range(Fields), x \in {Num, Null}}

\* event.body: absent, the empty string, text that is not JSON, JSON of a
\* primitive, or JSON of an object.
Bodies ==
    {Undefined, [t |-> "empty"], [t |-> "malformed"], [t |-> "numlit"], [t |-> "nulllit"]}
        \cup FullBodies \cup MissingBodies \cup NonStringBodies

\* !event.body is false
Truthy(b) == b.t \notin {"undefined", "empty"}

-----------------------------------------------------------------------------
(* Validation rules of the first handler *)

\* The message recorded for field k with value v, "" when there is none.
FieldError(k, v) ==
    CASE k = "name" ->
            IF LengthLt(v, NameMin)
            THEN "Your name was too short. It should be at least 2 characters long."
            ELSE IF LengthGt(v, NameMax)
            THEN "Your name was too large. Please limit your answer to 50 characters."
            ELSE ""
      [] k = "email" ->
            IF LengthLt(v, EmailMin) THEN "Please enter a valid email."
            ELSE IF LengthGt(v, EmailMax) THEN "Please enter a valid email."
            ELSE IF IndexOfAtIsMinus1(v) THEN "Please enter a valid email."
            ELSE ""
      [] k = "subject" ->
            IF LengthLt(v, SubjectMin)
            THEN "Please enter a subject. It should be at least 2 characters long."
            ELSE IF LengthGt(v, SubjectMax)
            THEN "Please limit your subject to 255 characters."
            ELSE ""
      [] OTHER ->
            IF LengthLt(v, MessageMin)
            THEN "Please enter a message. It should be at least 10 characters long."
            ELSE IF LengthGt(v, MessageMax)
            THEN "Please limit your subject to 2000 characters."
            ELSE ""

\* A rule reads .length of null, or .indexOf of a value that has none.
ValidationThrows(b) ==
    \/ \E k \in Range(Validated) : ReadThrows(b.val[k])
    \/ /\ ~LengthLt(b.val["email"], EmailMin)
       /\ ~LengthGt(b.val["email"], EmailMax)
       /\ IndexOfThrows(b.val["email"])

\* A plausible slip: stop at the first field that breaks a rule.
ValidationsFailFast(b) ==
    LET bad == SelectSeq(Validated, LAMBDA k : FieldError(k, b.val[k]) # "")
        ks == IF bad = <<>> THEN <<>> ELSE <<Head(bad)>>
    IN  Obj(ks, [k \in Range(ks) |-> Lit(FieldError(k, b.val[k]))])

\* The object validations: one entry per field that breaks a rule, added in
\* the order name, email, subject, message.
Validations(b) ==
    LET ks == SelectSeq(Validated, LAMBDA k : FieldError(k, b.val[k]) # "")
    IN  Obj(ks, [k \in Range(ks) |-> Lit(FieldError(k, b.val[k]))])

\* 'recaptcha' in body && 'name' in body && ... && 'message' in body
HasAllFields(b) == \A k \in Range(Fields) : k \in Range(b.keys)

-----------------------------------------------------------------------------
(* State of one invocation *)

VARIABLES
    variant,       \* 1: handler of lines 64-171, 2: handler of lines 193-260
    event,         \* the argument of the handler
    pc,            \* "start", "awaitVerify", "awaitSends", "done", "rejected"
    body,          \* the local body, once parsed
    response,      \* the value the handler's promise resolves to
    error,         \* the error the handler's promise rejects with
    verifyCalls,   \* number of calls of axios.post
    verifyToken,   \* the response= parameter of the call
    verifyResult,  \* "none", "pending", "threw", "nodata", "false", "true"
    sendCalls,     \* per email, number of calls of sendTemplatedEmail
    sendParams,    \* per email, the parameters of the call
    sendState,     \* per email, "none", "created", "pending", "fulfilled", "rejected"
    sendReason,    \* per email, the rejection reason
    log            \* what console.error has printed

vars == <<variant, event, pc, body, response, error, verifyCalls, verifyToken,
          verifyResult, sendCalls, sendParams, sendState, sendReason, log>>

NoResponse == [statusCode |-> 0, body |-> Undefined]

\* What the verification call may come back with.
VerifyOutcomes == {"threw", "nodata", "false", "true"}

\* Errors the email service may reject a send with.
SendErrors ==
    {Error("MessageRejected", "Email address is not verified."),
     Error("Throttling", "Maximum sending rate exceeded.")}

Init ==
    /\ variant \in {1, 2}
    /\ event \in {[body |-> b] : b \in Bodies}
    /\ pc = "start"
    /\ body = Undefined
    /\ response = NoResponse
    /\ error = Undefined
    /\ verifyCalls = 0
    /\ verifyToken = Undefined
    /\ verifyResult = "none"
    /\ sendCalls = [e \in Emails |-> 0]
    /\ sendParams = [e \in Emails |-> Undefined]
    /\ sendState = [e \in Emails |-> "none"]
    /\ sendReason = [e \in Emails |-> Undefined]
    /\ log = <<>>

\* return { statusCode, body }
Return(code, b) ==
    /\ pc' = "done"
    /\ response' = [statusCode |-> code, body |-> b]
    /\ error' = error

\* An exception leaves the async function: its promise rejects.
Throw(e) ==
    /\ pc' = "rejected"
    /\ error' = e
    /\ response' = response

\* await axios.post(`...&response=${body.recaptcha}`)
CallVerify(b) ==
    /\ pc' = "awaitVerify"
    /\ verifyCalls' = verifyCalls + 1
    /\ verifyToken' = Get(b, "recaptcha")
    /\ verifyResult' = "pending"
    /\ UNCHANGED <<response, error>>

NoVerify == UNCHANGED <<verifyCalls, verifyToken, verifyResult>>
NoSend == UNCHANGED <<sendCalls, sendParams, sendState, sendReason, log>>

-----------------------------------------------------------------------------
(* First handler, lines 64-171 *)

\* Lines 65-117: up to the first await.
Handler1Start ==
    /\ variant = 1
    /\ pc = "start"
    /\ IF ~Truthy(event.body)
       THEN Return(400, Lit("Bad Request")) /\ body' = body /\ NoVerify
       ELSE IF ParseThrows(event.body)
       THEN Throw(Error("SyntaxError", "Unexpected token")) /\ body' = body /\ NoVerify
       ELSE LET b == JSONparse(event.body) IN
            /\ body' = b
            /\ IF b.t # "obj"
               THEN Throw(Error("TypeError", "Cannot use 'in' operator")) /\ NoVerify
               ELSE IF ~HasAllFields(b)
               THEN Return(400, Obj(<<"message">>, [k \in {"message"} |-> Lit("Bad Request")]))
                    /\ NoVerify
               ELSE IF ValidationThrows(b)
               THEN Throw(Error("TypeError", "Cannot read properties")) /\ NoVerify
               ELSE IF Len(Validations(b).keys) # 0
               THEN Return(422, JSONstringify(Validations(b))) /\ NoVerify
               ELSE CallVerify(b)
    /\ NoSend
    /\ UNCHANGED <<variant, event>>

\* The verification call settles: the provider rejects (or is unreachable),
\* answers without data, or answers with data.success false or true.
VerifySettle(o) ==
    /\ pc = "awaitVerify"
    /\ verifyResult = "pending"
    /\ verifyResult' = o
    /\ UNCHANGED <<variant, event, pc, body, response, error, verifyCalls, verifyToken>>
    /\ NoSend

\* Lines 135-147: parameters of the thank-you email.
ThankYouParams1(b) ==
    [ToAddresses |-> <<Get(b, "email")>>,
     Source |-> PORTFOLIO_EMAIL,
     Template |-> THANK_YOU_TEMPLATE,
     TemplateData |-> JSONstringify(b),
     ReplyToAddresses |-> <<PORTFOLIO_EMAIL>>]

\* Lines 149-161: parameters of the notification email.
NotificationParams1(b) ==
    [ToAddresses |-> <<PERSONAL_EMAIL>>,
     Source |-> PORTFOLIO_EMAIL,
     Template |-> NOTIFICATION_TEMPLATE,
     TemplateData |-> JSONstringify(b),
     ReplyToAddresses |-> <<Get(b, "email")>>]

\* Lines 118-162: from the return of the verification call to the await of
\* Promise.allSettled.  The catch of line 127 receives both the rejection of
\* axios.post and the Error thrown at line 125.
Handler1AfterVerify ==
    /\ variant = 1
    /\ pc = "awaitVerify"
    /\ verifyResult \in VerifyOutcomes
    /\ CASE verifyResult = "threw" ->
                Return(401, Lit("Network Error")) /\ NoSend
         [] verifyResult = "nodata" ->
                Return(500, Lit("Something went wrong. If this error persists, please notify me by email at PERSONAL_EMAIL.")) /\ NoSend
         [] verifyResult = "false" ->
                Return(401, Lit("Your form has been flagged as fraudulous. Please email me directly at PERSONAL_EMAIL.")) /\ NoSend
         [] OTHER ->
                /\ sendCalls' = [e \in Emails |-> sendCalls[e] + 1]
                /\ sendParams' = [e \in Emails |->
                        IF e = "thankYou" THEN ThankYouParams1(body) ELSE NotificationParams1(body)]
                /\ sendState' = [e \in Emails |-> "pending"]
                /\ pc' = "awaitSends"
                /\ UNCHANGED <<response, error, sendReason, log>>
    /\ NoVerify
    /\ UNCHANGED <<variant, event, body>>

\* A send whose promise was taken settles; the two settle in either order.
SendFulfil(e) ==
    /\ sendState[e] = "pending"
    /\ sendState' = [sendState EXCEPT ![e] = "fulfilled"]
    /\ UNCHANGED <<variant, event, pc, body, response, error, sendCalls, sendParams,
                   sendReason, log>>
    /\ NoVerify

SendReject(e, r) ==
    /\ sendState[e] = "pending"
    /\ sendState' = [sendState EXCEPT ![e] = "rejected"]
    /\ sendReason' = [sendReason EXCEPT ![e] = r]
    /\ UNCHANGED <<variant, event, pc, body, response, error, sendCalls, sendParams, log>>
    /\ NoVerify

\* The array Promise.allSettled resolves to: thank-you first, notification
\* second.
SettledValues ==
    <<[status |-> sendState["thankYou"], reason |-> sendReason["thankYou"]],
      [status |-> sendState["notification"], reason |-> sendReason["notification"]]>>

\* A plausible slip: the response follows the first promise.
MergeFirst(values) ==
    IF values[1].status = "rejected"
    THEN [statusCode |-> 503, body |-> JSONstringify(Lit(values[1].reason.message))]
    ELSE [statusCode |-> 200,
          body |-> JSONstringify(Obj(<<"statusText">>, [k \in {"statusText"} |-> Lit("OK")]))]

\* Lines 163-170: the response follows values[1], the notification.
Merge(values) ==
    IF values[2].status = "rejected"
    THEN [statusCode |-> 503, body |-> JSONstringify(Lit(values[2].reason.message))]
    ELSE [statusCode |-> 200,
          body |-> JSONstringify(Obj(<<"statusText">>, [k \in {"statusText"} |-> Lit("OK")]))]

\* Lines 162-170: Promise.allSettled resolves once both sends have settled.
Handler1AfterSends ==
    /\ variant = 1
    /\ pc = "awaitSends"
    /\ \A e \in Emails : sendState[e] \in {"fulfilled", "rejected"}
    /\ pc' = "done"
    /\ response' = Merge(SettledValues)
    /\ log' = IF SettledValues[2].status = "rejected"
              THEN Append(log, SettledValues[2].reason)
              ELSE log
    /\ UNCHANGED <<variant, event, body, error, sendCalls, sendParams, sendState, sendReason>>
    /\ NoVerify

-----------------------------------------------------------------------------
(* Second handler, lines 193-260 *)

MessageObj(s) == Obj(<<"message">>, [k \in {"message"} |-> Lit(s)])

\* Lines 194-205: up to the first await.  body.recaptcha is read inside the
\* try, so the TypeError of a null body reaches the catch of line 212.
Handler2Start ==
    /\ variant = 2
    /\ pc = "start"
    /\ IF ~Truthy(event.body)
       THEN Return(500, MessageObj("No Request Body Found")) /\ body' = body /\ NoVerify
       ELSE IF ParseThrows(event.body)
       THEN Throw(Error("SyntaxError", "Unexpected token")) /\ body' = body /\ NoVerify
       ELSE LET b == JSONparse(event.body) IN
            /\ body' = b
            /\ IF ReadThrows(b)
               THEN Return(403, MessageObj("Cannot read properties of null")) /\ NoVerify
               ELSE CallVerify(b)
    /\ NoSend
    /\ UNCHANGED <<variant, event>>

\* Lines 221-234: parameters of the thank-you email.
ThankYouParams2(b) ==
    [ToAddresses |-> <<Get(b, "email")>>,
     BccAddresses |-> PERSONAL_EMAIL,
     Source |-> PERSONAL_EMAIL,
     Template |-> Lit("PortfolioThankYou"),
     TemplateData |-> JSONstringify(b),
     ReplyToAddresses |-> <<PERSONAL_EMAIL>>]

\* Lines 206-259: from the return of the verification call to the end.
\* Line 221 calls sendTemplatedEmail and drops the request it returns: no
\* callback, no send(), no promise(), so the request is created and never
\* settles.  Line 237 declares a block-scoped body whose initialiser reads
\* body (lines 245, 247): the read throws a ReferenceError while the argument
\* is built, before sendTemplatedEmail is called, and the catch of line 254
\* returns it.  Lines 250-253 are never reached.
Handler2AfterVerify ==
    /\ variant = 2
    /\ pc = "awaitVerify"
    /\ verifyResult \in VerifyOutcomes
    /\ CASE verifyResult = "threw" ->
                Return(403, MessageObj("Network Error")) /\ NoSend
         [] verifyResult = "nodata" ->
                Return(403, MessageObj("No response from Captcha Verification!")) /\ NoSend
         [] verifyResult = "false" ->
                Return(403, MessageObj("Captcha Verification Failed!")) /\ NoSend
         [] OTHER ->
                /\ sendCalls' = [sendCalls EXCEPT !["thankYou"] = @ + 1]
                /\ sendParams' = [sendParams EXCEPT !["thankYou"] = ThankYouParams2(body)]
                /\ sendState' = [sendState EXCEPT !["thankYou"] = "created"]
                /\ Return(400, Error("ReferenceError", "Cannot access 'body' before initialization"))
                /\ UNCHANGED <<sendReason, log>>
    /\ NoVerify
    /\ UNCHANGED <<variant, event, body>>

-----------------------------------------------------------------------------

Next ==
    \/ Handler1Start
    \/ \E o \in VerifyOutcomes : VerifySettle(o)
    \/ Handler1AfterVerify
    \/ \E e \in Emails : SendFulfil(e)
    \/ \E e \in Emails, r \in SendErrors : SendReject(e, r)
    \/ Handler1AfterSends
    \/ Handler2Start
    \/ Handler2AfterVerify

Spec == Init /\ [][Next]_vars

-----------------------------------------------------------------------------
(* Properties *)

Done == pc = "done"
NoSendCalled == \A e \in Emails : sendCalls[e] = 0
Settled(e) == sendState[e] \in {"fulfilled", "rejected"}

\* C1: no email send is called unless the verification call has returned
\* success true, and no send has been called when the handler answers 400,
\* 422, 401 or 500.
C1_NoSendUnlessVerified ==
    /\ (~NoSendCalled => verifyResult = "true")
    /\ (Done /\ response.statusCode \in {400, 422, 401, 500} => NoSendCalled)

\* C2: whatever the body and the outcomes of the calls, the handler never
\* rejects, and when it has finished it has answered with a status code.
C2_NeverThrows ==
    /\ pc # "rejected"
    /\ (Done => response.statusCode # 0)

\* C3: when the verification call throws, the handler answers 500 and has
\* called no email send.
C3_ProviderThrows500 ==
    Done /\ verifyResult = "threw" => response.statusCode = 500 /\ NoSendCalled

\* C4: when the verification provider answers success false, the handler
\* answers 401 and has called no email send.
C4_Rejected401 ==
    Done /\ verifyResult = "false" => response.statusCode = 401 /\ NoSendCalled

\* The submission has all five fields and each is a string.
StringSubmission ==
    /\ body.t = "obj"
    /\ HasAllFields(body)
    /\ \A k \in Range(Fields) : body.val[k].t = "str"

Lo(k) == CASE k = "name" -> NameMin [] k = "email" -> EmailMin
           [] k = "subject" -> SubjectMin [] OTHER -> MessageMin

Hi(k) == CASE k = "name" -> NameMax [] k = "email" -> EmailMax
           [] k = "subject" -> SubjectMax [] OTHER -> MessageMax

\* The fields of the submission whose length is outside [Lo, Hi].
OutOfBound == {k \in Range(Validated) : body.val[k].len < Lo(k) \/ body.val[k].len > Hi(k)}

\* The email is within its length bound and holds no '@'.
EmailLacksAt == "email" \notin OutOfBound /\ ~body.val["email"].at

\* The keys of the mapping the response body encodes.
ResponseKeys == Range(JSONparse(response.body).keys)

\* C5 as stated: in the validating handler, a submission with a field outside
\* its length bound is answered 422 with a mapping whose keys are exactly the
\* out-of-bound fields, and the verification provider is not called.
C5_KeysAreOutOfBound ==
    variant = 1 /\ pc # "start" /\ StringSubmission /\ OutOfBound # {} =>
        /\ Done
        /\ response.statusCode = 422
        /\ response.body.t = "objlit"
        /\ ResponseKeys = OutOfBound
        /\ verifyCalls = 0

\* C5 amended: in the validating handler, a submission of five strings with a
\* field outside its length bound is answered 422 with a mapping whose keys
\* are the out-of-bound fields, plus email when the email is within its
\* length bound and holds no '@'; the verification provider is not called.
C5_KeysAreFailingFields ==
    variant = 1 /\ pc # "start" /\ StringSubmission /\ OutOfBound # {} =>
        /\ Done
        /\ response.statusCode = 422
        /\ response.body.t = "objlit"
        /\ ResponseKeys = OutOfBound \cup (IF EmailLacksAt THEN {"email"} ELSE {})
        /\ verifyCalls = 0

\* Two fields are out of bound, a third is in bound, and the email is in
\* bound without '@': the answer is 422 and names the email too.
C5_Witness ==
    /\ variant = 1 /\ Done /\ StringSubmission
    /\ response.statusCode = 422
    /\ OutOfBound = {"name", "message"}
    /\ EmailLacksAt
    /\ response.body.t = "objlit"
    /\ ResponseKeys = {"name", "email", "message"}

\* C6: once verification has succeeded and both sends have settled, the
\* answer follows the notification send alone: 503 with the rejection reason
\* as body when it rejected, 200 with the fixed payload when it resolved,
\* whatever the thank-you send did.
C6_NotificationDecides ==
    Done /\ verifyResult = "true" /\ (\A e \in Emails : Settled(e)) =>
        IF sendState["notification"] = "rejected"
        THEN /\ response.statusCode = 503
             /\ response.body.t = "strlit"
             /\ ValueOf(response.body).text = sendReason["notification"].message
        ELSE /\ response.statusCode = 200
             /\ response.body.t = "objlit"
             /\ JSONparse(response.body) =
                    Obj(<<"statusText">>, [k \in {"statusText"} |-> Lit("OK")])

\* The thank-you send rejected, the notification resolved, and the handler
\* answered 200.
C6_Witness ==
    /\ Done /\ verifyResult = "true"
    /\ sendState["thankYou"] = "rejected"
    /\ sendState["notification"] = "fulfilled"
    /\ response.statusCode = 200

\* C7: once the verification provider has answered success true and the
\* handler has gone on, each of the two sends has been called exactly once
\* with template data equal to the JSON encoding of the submission.
C7_BothSendsCalled ==
    verifyResult = "true" /\ pc \in {"awaitSends", "done"} =>
        \A e \in Emails :
            /\ sendCalls[e] = 1
            /\ sendParams[e].TemplateData = JSONstringify(body)

\* C8: a request without a body is answered 400 with no verification call
\* and no email send.
C8_NoBody400 ==
    Done /\ ~Truthy(event.body) =>
        response.statusCode = 400 /\ verifyCalls = 0 /\ NoSendCalled

\* C9: every response has a status code among 200, 400, 401, 422, 500, 503.
C9_StatusCodes ==
    Done => response.statusCode \in {200, 400, 401, 422, 500, 503}

\* C10: after verification succeeds both sends are issued together, and the
\* handler answers only when both have settled.
C10_WaitsForBoth ==
    /\ (pc = "awaitSends" => \A e \in Emails : sendCalls[e] = 1 /\ sendState[e] # "none")
    /\ (Done /\ verifyResult = "true" => \A e \in Emails : Settled(e))

====
